---- MODULE Spec2Model ----
(***************************************************************************)
(* Nested discussion thread: the flat comment collection held by the       *)
(* DiscussionThread component, the localStorage-backed CommentService and  *)
(* the TreeBuilder that derives the forest shown to the user.              *)
(*                                                                         *)
(* Ids are strings in the source (`temp_<ms>_<random>`, `comment_<ms>_<r>`,*)
(* '1'..'7').  Here an id is a record [ns, n]: ns is the prefix and n      *)
(* stands for the rest of the string.  null is NullId.                     *)
(* createdAt is an ISO string in the source and is only ever read through  *)
(* new Date(..).getTime(): it is modelled by that millisecond value.       *)
(* `optimistic` is true or absent in the source: FALSE models absent.      *)
(***************************************************************************)
EXTENDS Integers, Sequences, FiniteSets, TLC

VARIABLES
    comments,   \* DiscussionThread: the `comments` state (flat collection)
    phase,      \* DiscussionThread: "loading" | "ready" | "error"
    store,      \* CommentService: the parsed content of localStorage[STORAGE_KEY]
    pending,    \* handleReply / handleDelete invocations suspended at their await
    alerts,     \* number of alert() notifications raised, per message
    now,        \* the wall clock read by Date.now() / new Date()
    nextOp,     \* number of reply/delete intents issued so far
    hasItem,    \* CommentService: localStorage holds an item under STORAGE_KEY
    done,       \* history: the intents that are over, with their outcome
    arg,        \* TreeBuilder: the flat collection handed to a direct call
    ret         \* TreeBuilder: the values returned by the direct calls made on arg

vars == <<comments, phase, store, pending, alerts, now, nextOp, hasItem, done,
          arg, ret>>
coordVars == <<comments, phase, store, pending, alerts, now, nextOp, hasItem, done>>
treeVars == <<arg, ret>>

\* ---------------------------------------------------------------- bounds
MaxLen == 3        \* longest flat collection handed directly to TreeBuilder
MaxStamp == 2      \* createdAt values of those collections are 1..MaxStamp
MaxSeed == 2       \* most records in localStorage when the page is opened
MaxTicks == 1      \* clock advances observed during a session
MaxOps == 2        \* reply/delete intents issued during a session

\* ------------------------------------------------------------ data model
NullId == [ns |-> "null", n |-> 0]
Id(ns, n) == [ns |-> ns, n |-> n]

\* what the reply form submits
\* strings that the code looks into are sequences of characters; the reply
\* form can be submitted with any text, blank ones included
Contents == {<<" ", "h", "i">>, <<" ", "\n">>}
Authors == {<<"b", "o">>, <<>>}

Comment(id, parentId, content, author, createdAt, optimistic) ==
    [id |-> id, parentId |-> parentId, content |-> content, author |-> author,
     createdAt |-> createdAt, optimistic |-> optimistic]

Range(s) == {s[i] : i \in DOMAIN s}
IdsOf(cs) == {cs[i].id : i \in DOMAIN cs}

\* ----------------------------------------------------------- TreeBuilder
\* A forest is [roots, nodes]: nodes maps an id to its CommentNode (the Map
\* of buildTree), children and roots hold ids, which stand for the object
\* references of the source.

\* first pass: map.set(comment.id, {...comment, children: [], depth: 0})
IndexNodes(cs) ==
    LET last(id) == CHOOSE i \in DOMAIN cs :
                        /\ cs[i].id = id
                        /\ \A j \in DOMAIN cs : cs[j].id = id => j <= i
    IN [id \in IdsOf(cs) |-> cs[last(id)] @@ [children |-> <<>>, depth |-> 0]]

\* LinkOne with the `else` branch of `if (parent)` left out
LinkOneDropOrphan(st, comment) ==
    IF comment.parentId = NullId
    THEN [st EXCEPT !.roots = Append(@, comment.id)]
    ELSE IF comment.parentId \in DOMAIN st.nodes
         THEN [st EXCEPT
                 !.nodes[comment.id].depth = st.nodes[comment.parentId].depth + 1,
                 !.nodes[comment.parentId].children = Append(@, comment.id)]
         ELSE st

\* LinkOne setting the depth before it looks the parent up
LinkOneDepthFirst(st, comment) ==
    IF comment.parentId = NullId
    THEN [st EXCEPT !.roots = Append(@, comment.id)]
    ELSE IF comment.parentId \in DOMAIN st.nodes
         THEN [st EXCEPT
                 !.nodes[comment.id].depth = st.nodes[comment.parentId].depth + 1,
                 !.nodes[comment.parentId].children = Append(@, comment.id)]
         ELSE [st EXCEPT !.nodes[comment.id].depth = 1,
                         !.roots = Append(@, comment.id)]

\* second pass: link every comment to its parent, or push it to roots
LinkOne(st, comment) ==
    IF comment.parentId = NullId
    THEN [st EXCEPT !.roots = Append(@, comment.id)]
    ELSE IF comment.parentId \in DOMAIN st.nodes
         THEN [st EXCEPT
                 !.nodes[comment.id].depth = st.nodes[comment.parentId].depth + 1,
                 !.nodes[comment.parentId].children = Append(@, comment.id)]
         ELSE [st EXCEPT !.roots = Append(@, comment.id)]

RECURSIVE LinkNodes(_, _, _)
LinkNodes(cs, i, st) ==
    IF i > Len(cs) THEN st ELSE LinkNodes(cs, i + 1, LinkOne(st, cs[i]))

\* InsertByCreatedAt placing a node before the nodes of equal createdAt
InsertBeforeEqual(nodes, sorted, x) ==
    LET k == Cardinality({i \in DOMAIN sorted :
                            nodes[sorted[i]].createdAt < nodes[x].createdAt})
    IN SubSeq(sorted, 1, k) \o <<x>> \o SubSeq(sorted, k + 1, Len(sorted))

\* Array.prototype.sort with (a, b) => time(a) - time(b): stable, ascending
InsertByCreatedAt(nodes, sorted, x) ==
    LET k == Cardinality({i \in DOMAIN sorted :
                            nodes[sorted[i]].createdAt <= nodes[x].createdAt})
    IN SubSeq(sorted, 1, k) \o <<x>> \o SubSeq(sorted, k + 1, Len(sorted))

RECURSIVE SortFrom(_, _, _, _)
SortFrom(nodes, seq, i, sorted) ==
    IF i > Len(seq) THEN sorted
    ELSE SortFrom(nodes, seq, i + 1, InsertByCreatedAt(nodes, sorted, seq[i]))

SortByCreatedAt(nodes, seq) == SortFrom(nodes, seq, 1, <<>>)

\* the nodes sortChildren visits: everything reachable from the roots
RECURSIVE ReachFrom(_, _, _)
ReachFrom(nodes, frontier, seen) ==
    IF frontier = {} THEN seen
    ELSE LET kids == UNION {Range(nodes[id].children) : id \in frontier}
         IN ReachFrom(nodes, kids \ (seen \cup frontier), seen \cup frontier)

Reachable(forest) == ReachFrom(forest.nodes, Range(forest.roots), {})

SortChildren(st) ==
    LET reach == Reachable(st)
    IN [id \in DOMAIN st.nodes |->
          IF id \in reach
          THEN [st.nodes[id] EXCEPT !.children = SortByCreatedAt(st.nodes, @)]
          ELSE st.nodes[id]]

buildTree(cs) ==
    LET linked == LinkNodes(cs, 1, [roots |-> <<>>, nodes |-> IndexNodes(cs)])
        sorted == SortChildren(linked)
    IN [roots |-> SortByCreatedAt(sorted, linked.roots), nodes |-> sorted]

\* countNodes: traverse(node) counts the node and then its children
RECURSIVE CountFrom(_, _), CountAll(_, _)
CountFrom(nodes, id) == 1 + CountAll(nodes, nodes[id].children)
CountAll(nodes, seq) ==
    IF seq = <<>> THEN 0
    ELSE CountFrom(nodes, Head(seq)) + CountAll(nodes, Tail(seq))

countNodes(forest) == CountAll(forest.nodes, forest.roots)

\* getMaxDepth: traverse(node) raises maxDepth to node.depth, then traverses
\* the children; the running maxDepth is threaded through the walk
MaxOf(a, b) == IF a >= b THEN a ELSE b

RECURSIVE MaxDepthFrom(_, _, _), MaxDepthAll(_, _, _)
\* traverse looking at the node alone
MaxDepthOfNode(nodes, id, maxDepth) == MaxOf(maxDepth, nodes[id].depth)

MaxDepthFrom(nodes, id, maxDepth) ==
    MaxDepthAll(nodes, nodes[id].children, MaxOf(maxDepth, nodes[id].depth))
MaxDepthAll(nodes, seq, maxDepth) ==
    IF seq = <<>> THEN maxDepth
    ELSE MaxDepthAll(nodes, Tail(seq), MaxDepthFrom(nodes, Head(seq), maxDepth))

getMaxDepth(forest) ==
    IF Len(forest.roots) = 0 THEN 0
    ELSE MaxDepthAll(forest.nodes, forest.roots, 0)

\* flattenTree: traverse(node) pushes the node without children and depth,
\* then traverses its children
stripNode(node) == [f \in DOMAIN node \ {"children", "depth"} |-> node[f]]

RECURSIVE FlattenFrom(_, _), FlattenAll(_, _)
\* traverse pushing the node after its children
FlattenChildrenFirst(nodes, id) ==
    FlattenAll(nodes, nodes[id].children) \o <<stripNode(nodes[id])>>

FlattenFrom(nodes, id) ==
    <<stripNode(nodes[id])>> \o FlattenAll(nodes, nodes[id].children)
FlattenAll(nodes, seq) ==
    IF seq = <<>> THEN <<>>
    ELSE FlattenFrom(nodes, Head(seq)) \o FlattenAll(nodes, Tail(seq))

flattenTree(forest) == FlattenAll(forest.nodes, forest.roots)

\* ------------------------------------------- direct calls of TreeBuilder
\* Flat collections handed to TreeBuilder: unique ids, any order of parents
\* and children, parent references that may be absent from the collection
\* or cyclic.  Record i carries id i; every arrangement of a collection is
\* one of these up to the names of the ids.
TreeId(i) == Id("comment", i)

FlatCollection(n, p, t) ==
    [i \in 1..n |-> Comment(TreeId(i), p[i], <<"h", "i">>, <<"a", "l">>, t[i], FALSE)]

NoRet == [fn \in {} |-> 0]

InitTree ==
    /\ \E n \in 0..MaxLen :
          \E p \in [1..n -> {NullId} \cup {TreeId(j) : j \in 1..(n + 1)}],
             t \in [1..n -> 1..MaxStamp] :
              arg = FlatCollection(n, p, t)
    /\ ret = NoRet
    /\ comments = <<>>
    /\ phase = "loading"
    /\ store = <<>>
    /\ pending = NoRet
    /\ alerts = [post |-> 0, delete |-> 0]
    /\ now = 0
    /\ nextOp = 0
    /\ hasItem = FALSE
    /\ done = NoRet

\* parent chains of cs that never come back to where they started
RECURSIVE ChainEnds(_, _, _)
ChainEnds(cs, id, fuel) ==
    IF id = NullId \/ id \notin IdsOf(cs) THEN TRUE
    ELSE IF fuel = 0 THEN FALSE
    ELSE LET c == CHOOSE x \in Range(cs) : x.id = id
         IN ChainEnds(cs, c.parentId, fuel - 1)

Acyclic(cs) == \A i \in DOMAIN cs : ChainEnds(cs, cs[i].id, Len(cs))
UniqueIds(cs) == \A i, j \in DOMAIN cs : cs[i].id = cs[j].id => i = j

CallBuildTree ==
    /\ DOMAIN ret = {}
    /\ ret' = ret @@ ("buildTree" :> buildTree(arg))
    /\ UNCHANGED <<arg, coordVars>>

CallCountNodes ==
    /\ "buildTree" \in DOMAIN ret
    /\ "countNodes" \notin DOMAIN ret
    /\ ret' = ret @@ ("countNodes" :> countNodes(ret.buildTree))
    /\ UNCHANGED <<arg, coordVars>>

CallFlattenTree ==
    /\ "countNodes" \in DOMAIN ret
    /\ "flattenTree" \notin DOMAIN ret
    /\ ret' = ret @@ ("flattenTree" :> flattenTree(ret.buildTree))
    /\ UNCHANGED <<arg, coordVars>>

\* buildTree(flattenTree(buildTree(arg)))
CallBuildTreeAgain ==
    /\ "flattenTree" \in DOMAIN ret
    /\ "rebuilt" \notin DOMAIN ret
    /\ ret' = ret @@ ("rebuilt" :> buildTree(ret.flattenTree))
    /\ UNCHANGED <<arg, coordVars>>


\* ------------------------------------------------------- CommentService
\* getInitialData: the sample comments '1'..'7'.  createdAt is counted in
\* minutes from the latest of them (2024-01-10T10:30:00Z); content, which
\* nothing reads, is cut to its first letters.
SampleId(i) == Id("sample", i)

getInitialData ==
    << Comment(SampleId(1), NullId, <<"T", "h">>, <<"A", "l", "i", "c", "e">>, -30, FALSE),
       Comment(SampleId(2), SampleId(1), <<"G", "r">>, <<"B", "o", "b">>, -25, FALSE),
       Comment(SampleId(3), SampleId(2), <<"L", "e">>, <<"C", "h", "a", "r", "l", "i", "e">>, -20, FALSE),
       Comment(SampleId(4), SampleId(3), <<"T", "h">>, <<"B", "o", "b">>, -15, FALSE),
       Comment(SampleId(5), SampleId(4), <<"T", "h">>, <<"D", "a", "v", "i", "d">>, -10, FALSE),
       Comment(SampleId(6), SampleId(1), <<"A", "n">>, <<"E", "v", "e">>, -5, FALSE),
       Comment(SampleId(7), SampleId(6), <<"N", "e">>, <<"F", "r", "a", "n", "k">>, 0, FALSE) >>

\* getComments returning an empty collection when there is no item
getCommentsNoSeed(stored, has) == stored

\* getComments: JSON.parse of the stored string, or the sample data when
\* there is no item (the action that makes the call saves them).  Every field
\* of a stored comment is a string or null, so the parsed records are the
\* stored ones.
getComments(stored, has) == IF has THEN stored ELSE getInitialData

\* addComment: {...comment, id: `comment_..`, createdAt: now}, pushed and saved.
\* The random suffix of the id is new at every call: k is the number of the
\* intent that makes the call.
newComment(fields, k, time) ==
    Comment(Id("comment", k), fields.parentId, fields.content, fields.author,
            time, FALSE)

\* addComment saving the new comment without the collection it has read
addCommentAlone(stored, has, fields, k, time) == <<newComment(fields, k, time)>>

addComment(stored, has, fields, k, time) ==
    Append(getComments(stored, has), newComment(fields, k, time))

\* deleteComment: findAllChildIds collects the children of an id, then theirs
RECURSIVE findAllChildIds(_, _)
\* findAllChildIds stopping at the children
findChildIds(cs, parentId) ==
    {cs[i].id : i \in {j \in DOMAIN cs : cs[j].parentId = parentId}}

findAllChildIds(cs, parentId) ==
    LET childIds == {cs[i].id : i \in {j \in DOMAIN cs : cs[j].parentId = parentId}}
    IN childIds \cup UNION {findAllChildIds(cs, c) : c \in childIds}

deleteComment(stored, has, id) ==
    LET cs == getComments(stored, has)
        idsToDelete == {id} \cup findAllChildIds(cs, id)
    IN SelectSeq(cs, LAMBDA c : c.id \notin idsToDelete)

\* ----------------------------------------------------- DiscussionThread
\* Records found in localStorage when the page is opened: written by earlier
\* addComment calls, so every parent precedes its children and createdAt
\* never decreases along the collection.  Only the order of the stamps is
\* ever read, so the first record is given stamp 0.
SeedId(i) == Id("seed", i)
SeedStamps == {0, 1}
\* the page is opened after the stored records were written
FirstNow == 1 + CHOOSE t \in SeedStamps : \A u \in SeedStamps : u <= t

SeedStores ==
    UNION {
      {[i \in 1..n |-> Comment(SeedId(i), p[i], <<"h", "i">>, <<"a", "l">>, t[i], FALSE)] :
          p \in {q \in [1..n -> {NullId} \cup {SeedId(j) : j \in 1..n}] :
                   \A i \in 1..n : q[i] = NullId \/ q[i].n < i},
          t \in {u \in [1..n -> SeedStamps] :
                   /\ \A i, j \in 1..n : i < j => u[i] <= u[j]
                   /\ n > 0 => u[1] = 0}}
      : n \in 0..MaxSeed}

NoPending == [k \in {} |-> 0]
Without(p, k) == [j \in DOMAIN p \ {k} |-> p[j]]

Init ==
    /\ comments = <<>>
    /\ phase = "loading"
    /\ store \in SeedStores
    /\ pending = NoPending
    /\ alerts = [post |-> 0, delete |-> 0]
    /\ now = FirstNow
    /\ nextOp = 0
    /\ hasItem = TRUE
    /\ done = NoPending
    /\ arg = <<>>
    /\ ret = NoRet

\* useMemo: the forest rendered from the current flat collection
commentTree == buildTree(comments)

\* useMemo: the figures shown above the thread
stats == [total |-> Len(comments), maxDepth |-> getMaxDepth(commentTree)]

\* useEffect: getComments().then(setComments)
Load ==
    /\ phase = "loading"
    /\ comments' = getComments(store, hasItem)
    /\ store' = getComments(store, hasItem)
    /\ hasItem' = TRUE
    /\ phase' = "ready"
    /\ UNCHANGED <<pending, alerts, now, nextOp, done, treeVars>>

\* useEffect: getComments() rejects
LoadFail ==
    /\ phase = "loading"
    /\ phase' = "error"
    /\ UNCHANGED <<comments, store, pending, alerts, now, nextOp, hasItem, done,
                   treeVars>>

Tick ==
    /\ now < FirstNow + MaxTicks
    /\ now' = now + 1
    /\ UNCHANGED <<comments, phase, store, pending, alerts, nextOp, hasItem, done,
                   treeVars>>

\* optimisticComment with an id made of the clock reading alone
optimisticCommentByClock(k, parentId, content, author, time) ==
    Comment(Id("temp", time), parentId, content, author, time, TRUE)

\* CommentItem: one item per node of the forest; its reply form hands
\* node.id to onReply, its Delete button (disabled while node.optimistic)
\* hands node.id to onDelete
\* (nothing is rendered while loading or after a failed load)
ReplyTargets == IF phase = "ready" THEN Reachable(commentTree) ELSE {}

\* DeleteTargets with the Delete button enabled on every node
DeleteTargetsAny == IF phase = "ready" THEN Reachable(commentTree) ELSE {}

DeleteTargets ==
    IF phase = "ready"
    THEN LET forest == commentTree
         IN {id \in Reachable(forest) : ~forest.nodes[id].optimistic}
    ELSE {}

\* the temporary record of handleReply; the random suffix of its id is new at
\* every call: k is the number of the intent
optimisticComment(k, parentId, content, author, time) ==
    Comment(Id("temp", k), parentId, content, author, time, TRUE)

\* String.prototype.trim: white space removed from both ends
Whitespace == {" ", "\t", "\n"}

RECURSIVE trimStart(_), trimEnd(_)
trimStart(str) ==
    IF str # <<>> /\ Head(str) \in Whitespace THEN trimStart(Tail(str)) ELSE str
trimEnd(str) ==
    IF str # <<>> /\ str[Len(str)] \in Whitespace
    THEN trimEnd(SubSeq(str, 1, Len(str) - 1)) ELSE str

\* trim leaving the text as typed
trimNothing(str) == str

trim(str) == trimEnd(trimStart(str))

\* Reply calling the store without the optimistic append
ReplyRequestFirst(parentId, content, author) ==
    LET k == nextOp + 1
        oc == optimisticComment(k, parentId, content, author, now)
    IN /\ phase = "ready"
       /\ pending' = pending @@
            (k :> [kind |-> "reply",
                   fields |-> [parentId |-> parentId, content |-> content,
                               author |-> author],
                   optimisticComment |-> oc, with |-> DOMAIN pending,
                   before |-> comments, after |-> comments])
       /\ nextOp' = k
       /\ UNCHANGED <<comments, phase, store, alerts, now, hasItem, done, treeVars>>

\* handleReply up to its await, for the node whose reply form was submitted
\* (parentId is one of ReplyTargets).  `before` and `after` record the
\* flat collection around the optimistic step; the code does not read them.
Reply(parentId, content, author) ==
    LET k == nextOp + 1
        oc == optimisticComment(k, parentId, content, author, now)
    IN /\ phase = "ready"
       /\ comments' = Append(comments, oc)
       /\ pending' = pending @@
            (k :> [kind |-> "reply",
                   fields |-> [parentId |-> parentId, content |-> content,
                               author |-> author],
                   optimisticComment |-> oc, with |-> DOMAIN pending,
                   before |-> comments, after |-> comments'])
       /\ nextOp' = k
       /\ UNCHANGED <<phase, store, alerts, now, hasItem, done, treeVars>>

\* CommentItem.handleSubmitReply: onReply is called when neither text is
\* blank; otherwise the submission has no effect.  `done` keeps the texts of
\* a submission that was turned down.
handleSubmitReply(id, replyContent, replyAuthor) ==
    IF trim(replyContent) # <<>> /\ trim(replyAuthor) # <<>>
    THEN Reply(id, replyContent, replyAuthor)
    ELSE /\ phase = "ready"
         /\ nextOp' = nextOp + 1
         /\ done' = done @@
              (nextOp + 1 :> [op |-> [kind |-> "rejected",
                                      fields |-> [content |-> replyContent,
                                                  author |-> replyAuthor]],
                              ok |-> FALSE])
         /\ UNCHANGED <<comments, phase, store, pending, alerts, now, hasItem,
                        treeVars>>

\* replaceOptimistic dropping the temporary record and pushing the confirmed one
replaceByAppend(prev, tempId, serverComment) ==
    IF tempId \in IdsOf(prev)
    THEN Append(SelectSeq(prev, LAMBDA c : c.id # tempId), serverComment)
    ELSE prev

\* prev.map(c => c.id === optimisticComment.id ? serverComment : c)
replaceOptimistic(prev, tempId, serverComment) ==
    [i \in DOMAIN prev |-> IF prev[i].id = tempId THEN serverComment ELSE prev[i]]

\* removeOptimistic dropping every record still flagged optimistic
removeAllOptimistic(prev, tempId) == SelectSeq(prev, LAMBDA c : ~c.optimistic)

\* prev.filter(c => c.id !== optimisticComment.id)
removeOptimistic(prev, tempId) == SelectSeq(prev, LAMBDA c : c.id # tempId)

\* addComment resolves: the store has pushed the comment, handleReply swaps it
\* in.  The store's read, push and save and the continuation of handleReply run
\* in the microtasks of one timer callback, so no other handler runs between
\* them; an updater passed to setComments is applied to the latest state.
ReplyConfirm(k) ==
    /\ k \in DOMAIN pending
    /\ pending[k].kind = "reply"
    /\ store' = addComment(store, hasItem, pending[k].fields, k, now)
    /\ comments' = replaceOptimistic(comments, pending[k].optimisticComment.id,
                                     newComment(pending[k].fields, k, now))
    /\ pending' = Without(pending, k)
    /\ done' = done @@ (k :> [op |-> pending[k], ok |-> TRUE,
                              returned |-> newComment(pending[k].fields, k, now)])
    /\ hasItem' = TRUE
    /\ UNCHANGED <<phase, alerts, now, nextOp, treeVars>>

\* ReplyRollback without the alert
ReplyRollbackSilent(k) ==
    /\ k \in DOMAIN pending
    /\ pending[k].kind = "reply"
    /\ comments' = removeOptimistic(comments, pending[k].optimisticComment.id)
    /\ pending' = Without(pending, k)
    /\ done' = done @@ (k :> [op |-> pending[k], ok |-> FALSE])
    /\ UNCHANGED <<phase, store, alerts, now, nextOp, hasItem, treeVars>>

\* addComment rejects: handleReply's catch
ReplyRollback(k) ==
    /\ k \in DOMAIN pending
    /\ pending[k].kind = "reply"
    /\ comments' = removeOptimistic(comments, pending[k].optimisticComment.id)
    /\ alerts' = [alerts EXCEPT !.post = @ + 1]
    /\ pending' = Without(pending, k)
    /\ done' = done @@ (k :> [op |-> pending[k], ok |-> FALSE])
    /\ UNCHANGED <<phase, store, now, nextOp, hasItem, treeVars>>

\* the filter of handleDelete: walk from c up its parents until the target
\* is met or comments.find returns undefined
RECURSIVE leadsTo(_, _, _)
leadsTo(cs, current, id) ==
    IF current.id = id THEN TRUE
    ELSE LET found == {i \in DOMAIN cs : cs[i].id = current.parentId}
         IN IF found = {} THEN FALSE
            ELSE leadsTo(cs, cs[CHOOSE i \in found : \A j \in found : i <= j], id)

\* deletedCommentsOf stopping at the direct replies of the target
deletedWithChildrenOnly(cs, id) ==
    SelectSeq(cs, LAMBDA c : c.id = id \/ c.parentId = id)

deletedCommentsOf(cs, id) == SelectSeq(cs, LAMBDA c : leadsTo(cs, c, id))

\* removeDeleted taking the records still awaiting confirmation along
removeDeletedAndTemporary(prev, deleted) ==
    SelectSeq(prev, LAMBDA c : c \notin Range(deleted) /\ ~c.optimistic)

\* prev.filter(c => !deletedComments.includes(c))
removeDeleted(prev, deleted) == SelectSeq(prev, LAMBDA c : c \notin Range(deleted))

\* restoreDeleted putting the snapshot back over the confirmed records only
restoreOverConfirmed(prev, deleted) ==
    SelectSeq(prev, LAMBDA c : ~c.optimistic) \o deleted

\* prev => [...prev, ...deletedComments]
restoreDeleted(prev, deleted) == prev \o deleted

\* handleDelete up to its await, the confirm() dialog accepted, for the node
\* whose Delete button was clicked (id is one of DeleteTargets).  The
\* `comments` the callback closes over is the rendered state: React renders
\* a click's update before the next click is handled.  includes() compares
\* object references; records are never copied, so two references are the
\* same object exactly when the records are equal.
Delete(id) ==
    LET k == nextOp + 1
        deleted == deletedCommentsOf(comments, id)
    IN /\ phase = "ready"
       /\ comments' = removeDeleted(comments, deleted)
       /\ pending' = pending @@
            (k :> [kind |-> "delete", id |-> id, deletedComments |-> deleted,
                   with |-> DOMAIN pending,
                   before |-> comments, after |-> comments'])
       /\ nextOp' = k
       /\ UNCHANGED <<phase, store, alerts, now, hasItem, done, treeVars>>

\* handleDelete from the click: the confirm() dialog is accepted or declined;
\* declined, the handler returns at once.  `done` keeps the declined intent.
handleDelete(id, confirmed) ==
    IF confirmed
    THEN Delete(id)
    ELSE /\ phase = "ready"
         /\ nextOp' = nextOp + 1
         /\ done' = done @@
              (nextOp + 1 :> [op |-> [kind |-> "declined", id |-> id],
                              ok |-> FALSE])
         /\ UNCHANGED <<comments, phase, store, pending, alerts, now, hasItem,
                        treeVars>>

\* deleteComment resolves
DeleteConfirm(k) ==
    /\ k \in DOMAIN pending
    /\ pending[k].kind = "delete"
    /\ store' = deleteComment(store, hasItem, pending[k].id)
    /\ pending' = Without(pending, k)
    /\ done' = done @@ (k :> [op |-> pending[k], ok |-> TRUE])
    /\ hasItem' = TRUE
    /\ UNCHANGED <<comments, phase, alerts, now, nextOp, treeVars>>

\* deleteComment rejects: handleDelete's catch
DeleteRollback(k) ==
    /\ k \in DOMAIN pending
    /\ pending[k].kind = "delete"
    /\ comments' = restoreDeleted(comments, pending[k].deletedComments)
    /\ alerts' = [alerts EXCEPT !.delete = @ + 1]
    /\ pending' = Without(pending, k)
    /\ done' = done @@ (k :> [op |-> pending[k], ok |-> FALSE])
    /\ UNCHANGED <<phase, store, now, nextOp, hasItem, treeVars>>

Next ==
    \/ Load
    \/ LoadFail
    \/ Tick
    \/ /\ nextOp < MaxOps
       /\ \E id \in ReplyTargets, content \in Contents, author \in Authors :
             handleSubmitReply(id, content, author)
    \/ /\ nextOp < MaxOps
       /\ \E id \in DeleteTargets, confirmed \in BOOLEAN :
             handleDelete(id, confirmed)
    \/ \E k \in DOMAIN pending : ReplyConfirm(k)
    \/ \E k \in DOMAIN pending : ReplyRollback(k)
    \/ \E k \in DOMAIN pending : DeleteConfirm(k)
    \/ \E k \in DOMAIN pending : DeleteRollback(k)

Spec == Init /\ [][Next]_vars

\* the page opened for the first time: localStorage has no item yet
InitSample ==
    /\ comments = <<>>
    /\ phase = "loading"
    /\ store = <<>>
    /\ pending = NoPending
    /\ alerts = [post |-> 0, delete |-> 0]
    /\ now = FirstNow
    /\ nextOp = 0
    /\ hasItem = FALSE
    /\ done = NoPending
    /\ arg = <<>>
    /\ ret = NoRet

SpecSample == InitSample /\ [][Next]_vars

\* --------------------------------- direct calls, all functions together
\* the closure of handleDelete and the cascade of deleteComment, both run on
\* arg for one of its ids.  On a parent cycle neither the while loop of the
\* one nor the recursion of the other comes to an end: no call returns.
CallDelete ==
    /\ DOMAIN ret = {}
    /\ UniqueIds(arg) /\ Acyclic(arg)
    /\ \E id \in IdsOf(arg) :
          ret' = ret @@ ("deleteTarget" :> id)
                     @@ ("deletedComments" :> deletedCommentsOf(arg, id))
                     @@ ("deleteComment" :> deleteComment(arg, TRUE, id))
    /\ UNCHANGED <<arg, coordVars>>

NextTree ==
    \/ CallBuildTree
    \/ CallCountNodes
    \/ CallFlattenTree
    \/ CallBuildTreeAgain
    \/ CallDelete

SpecTree == InitTree /\ [][NextTree]_vars

\* --------------------------------------------- coordinator properties
Started == DOMAIN pending' \ DOMAIN pending
Resolved == DOMAIN pending \ DOMAIN pending'
Rejected == alerts' # alerts

\* the target of a delete and everything below it, found from the parents down
RECURSIVE SubtreeIds(_, _)
SubtreeIds(cs, ids) ==
    LET more == {cs[i].id : i \in {j \in DOMAIN cs : cs[j].parentId \in ids}}
    IN IF more \subseteq ids THEN ids ELSE SubtreeIds(cs, ids \cup more)

\* C1: a reply appends exactly one record, with a temporary id, the caller's
\* parentId, content and author and optimistic = TRUE, and leaves the others
\* alone; when the add succeeds the store has pushed one comment under a new
\* store id with optimistic unset, and that comment takes the place of the
\* temporary record at its position, no other record changing.
C1_ReplyStep ==
    \A k \in Started :
        pending'[k].kind = "reply" =>
            LET r == comments'[Len(comments')]
            IN /\ Len(comments') = Len(comments) + 1
               /\ SubSeq(comments', 1, Len(comments)) = comments
               /\ r.id.ns = "temp"
               /\ r.id \notin IdsOf(comments) \cup IdsOf(store)
               /\ r.parentId = pending'[k].fields.parentId
               /\ r.content = pending'[k].fields.content
               /\ r.author = pending'[k].fields.author
               /\ r.optimistic = TRUE
               /\ store' = store

C1_ConfirmStep ==
    \A k \in Resolved :
        (pending[k].kind = "reply" /\ ~Rejected) =>
            LET returned == store'[Len(store')]
                tempId == pending[k].optimisticComment.id
            IN /\ store' = Append(store, returned)
               /\ returned.id.ns = "comment"
               /\ returned.id \notin IdsOf(store) \cup IdsOf(comments)
               /\ returned.optimistic = FALSE
               /\ returned.parentId = pending[k].fields.parentId
               /\ returned.content = pending[k].fields.content
               /\ returned.author = pending[k].fields.author
               /\ Len(comments') = Len(comments)
               /\ \A i \in DOMAIN comments :
                     comments'[i] = IF comments[i].id = tempId
                                    THEN returned ELSE comments[i]

C1_AddSuccess == [][C1_ReplyStep /\ C1_ConfirmStep]_vars

\* a confirmed reply sits between two older records of the flat collection
C1_Witness ==
    \E i \in DOMAIN comments :
        /\ comments[i].id.ns = "comment"
        /\ comments[i] \in Range(store)
        /\ 1 < i /\ i < Len(comments)
        /\ comments[i + 1].id.ns = "temp"

\* C2: when the add fails the temporary record of that reply leaves the flat
\* collection and every other record stays where it was; if nothing else
\* touched the collection since the reply, it is the collection before the
\* reply.
C2_RollbackStep ==
    \A k \in Resolved :
        (pending[k].kind = "reply" /\ Rejected) =>
            LET tempId == pending[k].optimisticComment.id
                kept == {i \in DOMAIN comments : comments[i].id # tempId}
            IN /\ tempId \notin IdsOf(comments')
               /\ Len(comments') = Cardinality(kept)
               /\ \A i \in kept :
                     comments'[Cardinality({j \in kept : j <= i})] = comments[i]
               /\ (comments = pending[k].after => comments' = pending[k].before)
               /\ store' = store

C2_AddFailure == [][C2_RollbackStep]_vars

\* one reply failed while another one is still waiting for the store
C2_Witness ==
    /\ alerts.post = 1
    /\ \E k \in DOMAIN pending :
          /\ pending[k].kind = "reply"
          /\ pending[k].optimisticComment \in Range(comments)
          /\ k < nextOp
    /\ Id("temp", nextOp) \notin IdsOf(comments)
    /\ nextOp \notin DOMAIN pending
    /\ Len(comments) >= 3

\* C3: delete(X) removes from the flat collection X and every transitive
\* descendant of X it holds at that time, and nothing else; a successful store
\* delete leaves the flat collection as it is.
C3_DeleteStep ==
    \A k \in Started :
        pending'[k].kind = "delete" =>
            LET gone == SubtreeIds(comments, {pending'[k].id})
                kept == {i \in DOMAIN comments : comments[i].id \notin gone}
            IN /\ IdsOf(comments') = IdsOf(comments) \ gone
               /\ Len(comments') = Cardinality(kept)
               /\ \A i \in kept :
                     comments'[Cardinality({j \in kept : j <= i})] = comments[i]
               /\ Range(pending'[k].deletedComments)
                    = {c \in Range(comments) : c.id \in gone}

C3_ConfirmStep ==
    \A k \in Resolved :
        (pending[k].kind = "delete" /\ ~Rejected) => comments' = comments

C3_DeleteRemovesSubtree == [][C3_DeleteStep /\ C3_ConfirmStep]_vars

\* a pending delete has taken its target, a reply to it and a reply to that
\* reply out of the flat collection
C3_Witness ==
    \E k \in DOMAIN pending :
        /\ pending[k].kind = "delete"
        /\ comments = pending[k].after
        /\ \E c, d \in Range(pending[k].deletedComments) :
              /\ c.parentId = pending[k].id
              /\ d.parentId = c.id

\* C4: when the delete fails every record of the retained closure is back in
\* the flat collection unchanged, and (nothing else having touched the
\* collection) the forest is the forest from before the delete: same parents
\* and children, same depths, same sibling order.
C4_RollbackStep ==
    \A k \in Resolved :
        (pending[k].kind = "delete" /\ Rejected) =>
            /\ Range(pending[k].deletedComments) \subseteq Range(comments')
            /\ (comments = pending[k].after =>
                  buildTree(comments') = buildTree(pending[k].before))

C4_DeleteRollbackRestoresForest == [][C4_RollbackStep]_vars

\* C5: every optimistic record of the flat collection is the temporary
\* record of a reply whose store call is still outstanding.
C5_NoDanglingOptimistic ==
    \A i \in DOMAIN comments :
        comments[i].optimistic =>
            \E k \in DOMAIN pending :
                /\ pending[k].kind = "reply"
                /\ pending[k].optimisticComment.id = comments[i].id

\* C6: no two records of the flat collection have the same id.
C6_UniqueIds == UniqueIds(comments)

\* two replies made at the same clock reading wait in the flat collection
\* next to a stored record
C6_Witness ==
    /\ \E i, j \in DOMAIN comments :
          /\ i < j
          /\ comments[i].optimistic /\ comments[j].optimistic
          /\ comments[i].createdAt = comments[j].createdAt
    /\ \E i \in DOMAIN comments : comments[i].id.ns = "seed"

\* C7: once the collection is loaded and no store call is outstanding, the
\* flat collection and the store hold the same ids.
C7_LocalMatchesStore ==
    (phase = "ready" /\ pending = NoPending) => IdsOf(comments) = IdsOf(store)

\* ------------------------------------------------- TreeBuilder properties
Built == "buildTree" \in DOMAIN ret
Counted == "countNodes" \in DOMAIN ret

RecordOf(cs, id) == CHOOSE c \in Range(cs) : c.id = id
PosOf(cs, id) == CHOOSE i \in DOMAIN cs : cs[i].id = id
HasParentIn(cs, c) == c.parentId # NullId /\ c.parentId \in IdsOf(cs)

\* ancestor hops from a comment to the root of its tree (acyclic cs only)
RECURSIVE Hops(_, _)
Hops(cs, id) ==
    LET c == RecordOf(cs, id)
    IN IF HasParentIn(cs, c) THEN 1 + Hops(cs, c.parentId) ELSE 0

\* how many times a node is listed in the forest
Occurrences(forest, id) ==
    Cardinality({i \in DOMAIN forest.roots : forest.roots[i] = id})
    + Cardinality({<<n, i>> \in Reachable(forest) \X (1..Len(arg) + 1) :
                     /\ i \in DOMAIN forest.nodes[n].children
                     /\ forest.nodes[n].children[i] = id})

\* C8: every node of buildTree(C) has depth equal to the number of ancestor
\* hops to its root, and roots have depth 0, whatever the order of C.
C8_DepthIsAncestorHops ==
    (Built /\ UniqueIds(arg) /\ Acyclic(arg)) =>
        /\ \A id \in Reachable(ret.buildTree) :
              ret.buildTree.nodes[id].depth = Hops(arg, id)
        /\ \A id \in Range(ret.buildTree.roots) :
              ret.buildTree.nodes[id].depth = 0

\* C9: every comment of C is listed exactly once in buildTree(C) with its own
\* fields, under its parent when the parent is in C and as a root otherwise;
\* countNodes of the forest is the length of C; the empty collection gives the
\* empty forest.
C9_EveryCommentOnce ==
    (Built /\ UniqueIds(arg) /\ Acyclic(arg)) =>
        LET forest == ret.buildTree
        IN /\ \A i \in DOMAIN arg :
                LET c == arg[i]
                IN /\ Occurrences(forest, c.id) = 1
                   /\ [f \in DOMAIN c |-> forest.nodes[c.id][f]] = c
                   /\ IF HasParentIn(arg, c)
                      THEN c.id \in Range(forest.nodes[c.parentId].children)
                      ELSE c.id \in Range(forest.roots)
           /\ Reachable(forest) = IdsOf(arg)
           /\ (arg = <<>> => forest.roots = <<>>)
           /\ (Counted => ret.countNodes = Len(arg))

C9_Witness ==
    /\ Counted /\ UniqueIds(arg) /\ Acyclic(arg)
    /\ Len(arg) = 3
    /\ \E i, j \in DOMAIN arg :
          /\ HasParentIn(arg, arg[i])
          /\ arg[j].parentId # NullId /\ ~HasParentIn(arg, arg[j])

\* C10: the root list and every children list of buildTree(C) are ordered by
\* createdAt ascending, nodes of equal createdAt in the order they have in C.
InOrder(forest, seq) ==
    \A i, j \in DOMAIN seq :
        i < j =>
            \/ forest.nodes[seq[i]].createdAt < forest.nodes[seq[j]].createdAt
            \/ /\ forest.nodes[seq[i]].createdAt = forest.nodes[seq[j]].createdAt
               /\ PosOf(arg, seq[i]) < PosOf(arg, seq[j])

C10_SiblingsOrdered ==
    (Built /\ UniqueIds(arg)) =>
        /\ InOrder(ret.buildTree, ret.buildTree.roots)
        /\ \A id \in Reachable(ret.buildTree) :
              InOrder(ret.buildTree, ret.buildTree.nodes[id].children)

\* three roots, the latest given first and the other two at the same createdAt
C10_Witness ==
    /\ Built
    /\ Len(ret.buildTree.roots) = 3
    /\ \E i, j, k \in DOMAIN arg :
          /\ i < j /\ j < k
          /\ arg[i].createdAt > arg[j].createdAt
          /\ arg[j].createdAt = arg[k].createdAt

\* C11: a comment whose non-null parentId names no comment of C is a root of
\* buildTree(C) with depth 0, listed once, and the comments that name it as
\* their parent are its children; buildTree returns a forest for such a C.
IsOrphan(cs, c) == c.parentId # NullId /\ c.parentId \notin IdsOf(cs)

C11_OrphansAreRoots ==
    (Built /\ UniqueIds(arg)) =>
        \A i \in DOMAIN arg :
            IsOrphan(arg, arg[i]) =>
                LET forest == ret.buildTree
                    id == arg[i].id
                IN /\ Cardinality({r \in DOMAIN forest.roots : forest.roots[r] = id}) = 1
                   /\ forest.nodes[id].depth = 0
                   /\ \A n \in DOMAIN forest.nodes :
                         id \notin Range(forest.nodes[n].children)
                   /\ ReachFrom(forest.nodes, {id}, {}) = SubtreeIds(arg, {id})
                   /\ \A j \in DOMAIN arg :
                         (arg[j].parentId = id /\ j # i) =>
                             Cardinality({x \in DOMAIN forest.nodes[id].children :
                                            forest.nodes[id].children[x] = arg[j].id}) = 1

\* an orphan given after its own reply, next to a proper root
C11_Witness ==
    /\ Built
    /\ \E i, j, k \in DOMAIN arg :
          /\ IsOrphan(arg, arg[j])
          /\ arg[i].parentId = arg[j].id /\ i < j
          /\ arg[k].parentId = NullId
          /\ Len(ret.buildTree.roots) = 2

\* C12: flattenTree(buildTree(C)) holds every record of C once, with the
\* fields it has in C and nothing else, in pre-order of the forest: every
\* list of siblings in its sorted order, each node right before its subtree.
Flattened == "flattenTree" \in DOMAIN ret
FlatPos(flat, id) == CHOOSE i \in DOMAIN flat : flat[i].id = id
SubtreeSize(forest, id) == Cardinality(ReachFrom(forest.nodes, {id}, {}))

RECURSIVE SizesBefore(_, _, _)
SizesBefore(forest, seq, i) ==
    IF i <= 1 THEN 0
    ELSE SubtreeSize(forest, seq[i - 1]) + SizesBefore(forest, seq, i - 1)

LaidOutFrom(forest, flat, seq, start) ==
    \A i \in DOMAIN seq :
        FlatPos(flat, seq[i]) = start + SizesBefore(forest, seq, i)

C12_FlattenRoundTrip ==
    (Flattened /\ UniqueIds(arg) /\ Acyclic(arg)) =>
        LET forest == ret.buildTree
            flat == ret.flattenTree
        IN /\ Len(flat) = Len(arg)
           /\ Range(flat) = Range(arg)
           /\ UniqueIds(flat)
           /\ LaidOutFrom(forest, flat, forest.roots, 1)
           /\ \A id \in IdsOf(arg) :
                 LaidOutFrom(forest, flat, forest.nodes[id].children,
                             FlatPos(flat, id) + 1)

\* a root given last, with two replies that the sort swaps
C12_Witness ==
    /\ Flattened
    /\ Len(arg) = 3
    /\ arg[3].parentId = NullId
    /\ arg[1].parentId = arg[3].id /\ arg[2].parentId = arg[3].id
    /\ arg[1].createdAt > arg[2].createdAt
    /\ ret.flattenTree = <<arg[3], arg[2], arg[1]>>

\* C13: buildTree(flattenTree(buildTree(C))) has the parents and children,
\* the sibling order and the depths of buildTree(C).
C13_RebuildIsSameForest ==
    ("rebuilt" \in DOMAIN ret /\ UniqueIds(arg) /\ Acyclic(arg)) =>
        /\ ret.rebuilt.roots = ret.buildTree.roots
        /\ \A id \in IdsOf(arg) :
              /\ ret.rebuilt.nodes[id].children = ret.buildTree.nodes[id].children
              /\ ret.rebuilt.nodes[id].depth = ret.buildTree.nodes[id].depth
\* ------------------------------------ coordinator properties, overlaps
\* the intent numbered k, in flight or over
OpOf(k) == IF k \in DOMAIN pending THEN pending[k] ELSE done[k].op
Occ(cs, c) == Cardinality({i \in DOMAIN cs : cs[i] = c})

\* C14: the temporary record of a reply in flight is in no closure snapshot
\* taken by a delete before the reply was made, and as long as no delete is
\* started after the reply the record is in the flat collection exactly once,
\* whether the earlier deletes are confirmed or rolled back.
C14_ReplyOutlivesEarlierDelete ==
    \A r \in DOMAIN pending :
        pending[r].kind = "reply" =>
            LET oc == pending[r].optimisticComment
            IN /\ \A d \in 1..(r - 1) :
                     OpOf(d).kind = "delete" =>
                         oc \notin Range(OpOf(d).deletedComments)
               /\ (\A k \in (r + 1)..nextOp : OpOf(k).kind # "delete") =>
                     Occ(comments, oc) = 1

\* a reply made while a delete was in flight; the delete has been rolled back
\* and its closure stands behind the temporary record
C14_Witness ==
    \E r \in DOMAIN pending, d \in DOMAIN done :
        /\ pending[r].kind = "reply"
        /\ d \in pending[r].with
        /\ done[d].op.kind = "delete" /\ ~done[d].ok
        /\ \E i \in DOMAIN comments :
              /\ comments[i] = pending[r].optimisticComment
              /\ i < Len(comments)
              /\ comments[i + 1] = done[d].op.deletedComments[1]

\* C15: two mutations in flight together on disjoint subtrees (a reply and a
\* delete, or two deletes): once both are over, whatever the order of the
\* store's answers and whichever of them failed, the flat collection holds
\* each record once and holds the records that the two mutations give when
\* applied one after the other, in either order, with the same outcomes.
RECURSIVE Below(_, _)
Below(S, ids) ==
    LET more == {c.id : c \in {x \in S : x.parentId \in ids}}
    IN IF more \subseteq ids THEN ids ELSE Below(S, ids \cup more)

\* ids a mutation acts on, in the collection S it is applied to
Touched(S, op) ==
    IF op.kind = "delete" THEN Below(S, {op.id})
    ELSE {op.fields.parentId, op.optimisticComment.id}

\* the records left by one mutation applied alone to S, given its outcome
AppliedAlone(S, o) ==
    IF ~o.ok THEN S
    ELSE IF o.op.kind = "reply" THEN S \cup {o.returned}
    ELSE {c \in S : c.id \notin Below(S, {o.op.id})}

BothOver ==
    /\ nextOp = 2
    /\ DOMAIN done = {1, 2}
    /\ {done[1].op.kind, done[2].op.kind} \in {{"delete"}, {"reply", "delete"}}
    /\ 1 \in done[2].op.with

DisjointPair ==
    LET S == Range(done[1].op.before)
    IN Touched(S, done[1].op) \cap Touched(S, done[2].op) = {}

C15_DisjointMutationsCommute ==
    (BothOver /\ DisjointPair) =>
        LET S == Range(done[1].op.before)
        IN /\ Range(comments) = AppliedAlone(AppliedAlone(S, done[1]), done[2])
           /\ Range(comments) = AppliedAlone(AppliedAlone(S, done[2]), done[1])
           /\ Len(comments) = Cardinality(Range(comments))

\* a delete and a reply elsewhere, in flight together: the delete was rolled
\* back, the reply confirmed
C15_Witness ==
    /\ BothOver /\ DisjointPair
    /\ done[1].op.kind = "delete" /\ ~done[1].ok
    /\ done[2].op.kind = "reply" /\ done[2].ok
    /\ done[2].returned \in Range(comments)

\* C16: a store call that fails ends its handler with one rollback of that
\* mutation and one alert of its kind, the store and the page being left as
\* they were; a store call that succeeds raises no alert; an intent that is
\* over makes no further store request, and no alert is raised otherwise.
C16_Step ==
    /\ \A k \in Resolved :
          /\ Resolved = {k} /\ Started = {}
          /\ DOMAIN done' = DOMAIN done \cup {k}
          /\ phase' = phase
          /\ IF done'[k].ok
             THEN alerts' = alerts
             ELSE /\ store' = store
                  /\ IF pending[k].kind = "reply"
                     THEN /\ alerts' = [alerts EXCEPT !.post = @ + 1]
                          /\ comments' = SelectSeq(comments,
                                LAMBDA c : c # pending[k].optimisticComment)
                     ELSE /\ alerts' = [alerts EXCEPT !.delete = @ + 1]
                          /\ comments' = comments \o pending[k].deletedComments
    /\ \A k \in Started : k \notin DOMAIN done /\ k > nextOp
    /\ Resolved = {} => alerts' = alerts

C16_FailuresContained == [][C16_Step]_vars

\* a reply and a delete have both failed, a notification each
C16_Witness ==
    /\ alerts = [post |-> 1, delete |-> 1]
    /\ DOMAIN pending = {}
    /\ \A k \in DOMAIN done : ~done[k].ok
    /\ store = done[1].op.before

\* C17: while the store call of a mutation is outstanding the optimistic
\* change has been made and the store holds nothing of it: the collection
\* after the change is the one before it plus the temporary record (reply) or
\* minus the closure, which is the target and its descendants in the
\* collection before the change (delete); and as long as no other mutation
\* has started or ended since, the flat collection is that collection.
Undisturbed(k) == k = nextOp /\ pending[k].with \subseteq DOMAIN pending

C17_OptimisticFirst ==
    \A k \in DOMAIN pending :
        LET op == pending[k]
        IN /\ IF op.kind = "reply"
              THEN /\ op.after = Append(op.before, op.optimisticComment)
                   /\ Id("comment", k) \notin IdsOf(store)
              ELSE LET closure == SubtreeIds(op.before, {op.id})
                   IN /\ op.deletedComments =
                           SelectSeq(op.before, LAMBDA c : c.id \in closure)
                      /\ op.after =
                           SelectSeq(op.before, LAMBDA c : c.id \notin closure)
           /\ Undisturbed(k) => comments = op.after

\* a delete of a comment with a reply waits for the store next to an earlier
\* mutation: the flat collection is already without the two records, the
\* store still has them
C17_Witness ==
    \E k \in DOMAIN pending :
        /\ pending[k].kind = "delete"
        /\ Undisturbed(k) /\ pending[k].with # {}
        /\ Len(pending[k].deletedComments) >= 2
        /\ Range(pending[k].deletedComments) \cap Range(comments) = {}
        /\ \A i \in 1..2 : pending[k].deletedComments[i] \in Range(store)

\* C18: a reply submitted with content or author empty or made of white
\* space only starts no mutation: the flat collection, the store, the
\* pending store calls and the alerts are what they were.
Blank(str) == \A i \in DOMAIN str : str[i] \in Whitespace

C18_Step ==
    \A k \in (nextOp + 1)..nextOp' :
        LET op == IF k \in DOMAIN pending' THEN pending'[k] ELSE done'[k].op
        IN (/\ op.kind \in {"reply", "rejected"}
            /\ Blank(op.fields.content) \/ Blank(op.fields.author)) =>
              /\ k \notin DOMAIN pending'
              /\ comments' = comments
              /\ store' = store
              /\ pending' = pending
              /\ alerts' = alerts

C18_BlankReplyRejected == [][C18_Step]_vars

\* a submission of white space under a name was turned down: nothing is
\* pending and the flat collection is still the stored one
C18_Witness ==
    /\ nextOp = 1 /\ DOMAIN done = {1}
    /\ done[1].op.kind = "rejected"
    /\ done[1].op.fields.content # <<>>
    /\ ~Blank(done[1].op.fields.author)
    /\ DOMAIN pending = {}
    /\ comments = store /\ Len(comments) > 0

\* C20: in every state the total shown is countNodes of the forest built from
\* the flat collection, and the maximum depth shown is getMaxDepth of that
\* forest: 0 when the forest is empty, else the largest depth among the
\* nodes reachable from its roots.
C20_DerivedStatistics ==
    LET forest == commentTree
        shown == stats
        depths == {forest.nodes[id].depth : id \in Reachable(forest)}
    IN /\ shown.total = countNodes(forest)
       /\ shown.maxDepth = getMaxDepth(forest)
       /\ IF forest.roots = <<>>
          THEN shown.maxDepth = 0
          ELSE /\ shown.maxDepth \in depths
               /\ \A d \in depths : d <= shown.maxDepth

\* a chain of four comments next to nothing else: the last two are replies
\* still awaiting confirmation
C20_Witness ==
    /\ phase = "ready"
    /\ stats = [total |-> 4, maxDepth |-> 3]
    /\ DOMAIN pending = {1, 2}

\* ------------------------------------------------- the sample comments
FirstRender == phase = "ready" /\ nextOp = 0
\* the first intent of the session is the delete of sample comment '1'
DeletingFirstSample ==
    /\ nextOp = 1 /\ DOMAIN pending = {1}
    /\ pending[1].kind = "delete" /\ pending[1].id = SampleId(1)

\* C19 as stated: on first use the store seeds the seven sample comments and
\* buildTree gives two roots, '1' and '6', maximum depth 4 at node '5' and 7
\* nodes; deleting '1' removes '1'..'5' and leaves '6' and '7' (maximum
\* depth 1, total 2).
C19_SampleTwoRoots ==
    /\ FirstRender =>
          LET forest == commentTree
          IN /\ forest.roots = <<SampleId(1), SampleId(6)>>
             /\ getMaxDepth(forest) = 4
             /\ forest.nodes[SampleId(5)].depth = 4
             /\ countNodes(forest) = 7
    /\ DeletingFirstSample =>
          /\ IdsOf(pending[1].deletedComments) = {SampleId(i) : i \in 1..5}
          /\ IdsOf(comments) = {SampleId(6), SampleId(7)}
          /\ stats = [total |-> 2, maxDepth |-> 1]

\* C19, amended: on first use the store seeds the seven sample comments and
\* buildTree gives one root, '1', with the children '2' and '6', '7' under
\* '6', maximum depth 4 at node '5' alone and 7 nodes; deleting '1' removes
\* all seven and leaves an empty collection (maximum depth 0, total 0).
C19_SampleOneRoot ==
    /\ FirstRender =>
          LET forest == commentTree
          IN /\ hasItem /\ store = getInitialData /\ comments = getInitialData
             /\ forest.roots = <<SampleId(1)>>
             /\ forest.nodes[SampleId(1)].children = <<SampleId(2), SampleId(6)>>
             /\ forest.nodes[SampleId(6)].children = <<SampleId(7)>>
             /\ getMaxDepth(forest) = 4
             /\ {id \in Reachable(forest) : forest.nodes[id].depth = 4} = {SampleId(5)}
             /\ countNodes(forest) = 7
    /\ DeletingFirstSample =>
          /\ IdsOf(pending[1].deletedComments) = {SampleId(i) : i \in 1..7}
          /\ comments = <<>>
          /\ stats = [total |-> 0, maxDepth |-> 0]

\* the delete of '1' waits for the store: nothing is shown any more, the
\* store still holds the seven comments
C19_Witness ==
    /\ DeletingFirstSample
    /\ comments = <<>>
    /\ Len(store) = 7

\* --------------------------------------------------- closure of a delete
\* C21: for a collection with unique ids and no parent cycle and a target
\* among its ids, the records handleDelete takes out (those whose parent
\* chain reaches the target) are the target and the descendants found from
\* the target down, child by child, and their ids are the ids that
\* deleteComment removes from the same collection.
DeleteCalled == "deleteTarget" \in DOMAIN ret

C21_ClosureEquivalence ==
    (DeleteCalled /\ UniqueIds(arg) /\ Acyclic(arg)) =>
        LET id == ret.deleteTarget
            down == SubtreeIds(arg, {id})
        IN /\ ret.deletedComments = SelectSeq(arg, LAMBDA c : c.id \in down)
           /\ down = {id} \cup findAllChildIds(arg, id)
           /\ IdsOf(arg) \ IdsOf(ret.deleteComment) = down
           /\ ret.deleteComment = SelectSeq(arg, LAMBDA c : c.id \notin down)

\* the target is listed after its child, and the child after its own child
C21_Witness ==
    /\ DeleteCalled
    /\ Len(ret.deletedComments) = 3
    /\ ret.deleteComment = <<>>
    /\ ret.deletedComments[3].id = ret.deleteTarget
    /\ ret.deletedComments[2].parentId = ret.deleteTarget
    /\ ret.deletedComments[1].parentId = ret.deletedComments[2].id

\* ------------------------------------------------ depth under mutation
\* C22: in every state reached from a loaded collection by replies, deletes
\* and the store's answers, each node of the rendered forest has a depth
\* equal to the number of its ancestors present in the flat collection, and
\* the maximum depth shown is the largest such number.
C22_DepthUnderMutation ==
    phase = "ready" =>
        LET forest == commentTree
            levels == {Hops(comments, id) : id \in IdsOf(comments)}
        IN /\ \A id \in IdsOf(comments) :
                 forest.nodes[id].depth = Hops(comments, id)
           /\ \A l \in levels : l <= stats.maxDepth
           /\ levels # {} => stats.maxDepth \in levels

\* ------------------------------------------ replies to pending replies
\* C23: in a run without deletes, once every add has been confirmed, every
\* non-null parentId of the flat collection is the id of one of its records,
\* and likewise in the store: no reply has become an orphan root.
NoOrphan(cs) ==
    \A i \in DOMAIN cs : cs[i].parentId = NullId \/ cs[i].parentId \in IdsOf(cs)

AllAddsConfirmed ==
    /\ phase = "ready"
    /\ DOMAIN pending = {}
    /\ \A k \in DOMAIN done :
          /\ done[k].op.kind # "delete"
          /\ done[k].op.kind = "reply" => done[k].ok

C23_ReplyStaysAttached ==
    AllAddsConfirmed => (NoOrphan(comments) /\ NoOrphan(store))

\* ------------------------------------------------------ delete intents
\* C24: a delete that reaches the store is for a record of the flat
\* collection whose optimistic flag is unset, never for a temporary id; a
\* delete declined at the confirm() dialog leaves the flat collection, the
\* store, the pending store calls and the alerts as they were.
C24_Step ==
    \A k \in (nextOp + 1)..nextOp' :
        LET op == IF k \in DOMAIN pending' THEN pending'[k] ELSE done'[k].op
        IN /\ op.kind = "delete" =>
                /\ op.id.ns # "temp"
                /\ \E i \in DOMAIN comments :
                      comments[i].id = op.id /\ ~comments[i].optimistic
           /\ op.kind = "declined" =>
                /\ comments' = comments
                /\ store' = store
                /\ pending' = pending
                /\ alerts' = alerts

C24_NoDeleteOfUnconfirmed == [][C24_Step]_vars

\* the delete of a comment was declined while a reply under it awaits the
\* store: the comment and the temporary record are still shown
C24_Witness ==
    /\ nextOp = 2 /\ DOMAIN pending = {1} /\ DOMAIN done = {2}
    /\ pending[1].kind = "reply"
    /\ done[2].op.kind = "declined"
    /\ done[2].op.id = pending[1].fields.parentId
    /\ comments = pending[1].after

\* ------------------------------------------------- the store's updates
\* C25: every store call that resolves works on the collection left by the
\* call that resolved before it: an add saves that collection with the new
\* comment appended, a delete saves it without the target and its
\* descendants; a call that fails and every other step leave the saved
\* collection alone.  So nothing an add has saved is lost except to a later
\* cascade delete, however the calls overlap.
C25_Step ==
    /\ \A k \in Resolved :
          IF ~done'[k].ok THEN store' = store
          ELSE IF pending[k].kind = "reply"
          THEN /\ store' = Append(store, done'[k].returned)
               /\ done'[k].returned.id \notin IdsOf(store)
          ELSE store' = SelectSeq(store,
                  LAMBDA c : c.id \notin SubtreeIds(store, {pending[k].id}))
    /\ (Resolved = {} /\ phase = "ready") => store' = store

C25_NoLostUpdate == [][C25_Step]_vars

\* two adds overlapped and the store answered the second one first: both
\* comments are saved, after the records loaded at the start
C25_Witness ==
    /\ DOMAIN pending = {} /\ DOMAIN done = {1, 2}
    /\ done[1].op.kind = "reply" /\ done[1].ok
    /\ done[2].op.kind = "reply" /\ done[2].ok
    /\ 1 \in done[2].op.with
    /\ Len(store) = Len(done[1].op.before) + 2
    /\ store[Len(store)] = done[1].returned
    /\ store[Len(store) - 1] = done[2].returned
====
